---- MODULE Spec2Model ----
(***************************************************************************)
(* Model of the LLM-Deployer service: the request gateway (main.py         *)
(* handle_task), the two orchestration flows (process_round_1_task,        *)
(* process_round_2_task), the callback notifier (notify_evaluation_server),*)
(* the content generator (llm_handler.py) and the repository publisher     *)
(* (github_handler.py).  The remote repository host, the local disk under  *)
(* /tmp and the callback endpoint are the environment: every call to them  *)
(* may succeed or fail, and git's own rules (a clone needs an existing     *)
(* repository and a free destination, a commit needs a change, a push      *)
(* needs a fast-forward) decide which outcomes are possible.               *)
(***************************************************************************)
EXTENDS Integers, Sequences, FiniteSets, TLC

\* ------------------------------------------------------------------ bounds
\* Largest round number a request carries.
MaxRound == 2

\* --------------------------------------------------------------- constants
\* main.py: max_retries = 5, delay = 1, time.sleep(60)
max_retries == 5
InitialDelay == 1
DeployWait == 60

\* The background runs the gateway can be asked for (one per request).
Runs == {"r1", "r2"}
\* Task identifiers (also the repository names and the /tmp/<task> names).
Tasks == {"demo-1"}
\* round is any integer: one below the valid ones, and the valid ones
MinRound == 0 - 1
Rounds == MinRound..MaxRound
\* os.environ after load_dotenv(); nothing in the program writes to it.
Environ == [API_SECRET |-> "s3cret", GITHUB_USER |-> "acct"]
getenv(name) == Environ[name]
\* main.py line 17 and github_handler.py line 10: read once, at import.
API_SECRET == getenv("API_SECRET")
Secrets == {API_SECRET, "wrong"}
GITHUB_USER == getenv("GITHUB_USER")

\* ---------------------------------------------------------------- content
\* Text is a sequence of symbols: a letter, carriage return, line feed, and
\* the two markdown code fences the generator strips (three backquotes followed
\* by html, and three backquotes).
FenceOpen == "<fence html>"
FenceClose == "<fence>"
Whitespace == {"CR", "LF"}
Symbols == {"a", "CR", "LF", FenceOpen, FenceClose}

\* What the model provider may answer: nothing but whitespace, a bare page, a
\* fenced page, and a fenced page with a Windows line end and a lone carriage
\* return in it.
Responses ==
  { <<"LF">>,
    <<"a">>,
    <<FenceOpen, "LF", "a", FenceClose, "LF">>,
    <<FenceOpen, "a", "CR", "LF", "a", "CR", FenceClose>> }

\* A value that is no text: Python's None, or a file that does not exist.
None == <<"<None>">>

\* str.strip(): leading and trailing whitespace removed.
RECURSIVE LStrip(_)
LStrip(s) == IF s # <<>> /\ Head(s) \in Whitespace THEN LStrip(Tail(s)) ELSE s
RECURSIVE RStrip(_)
RStrip(s) ==
  IF s # <<>> /\ s[Len(s)] \in Whitespace THEN RStrip(SubSeq(s, 1, Len(s) - 1)) ELSE s
Strip(s) == RStrip(LStrip(s))

\* llm_handler.py 66-72: strip, then drop a leading html fence and a trailing fence.
CleanFences(text) ==
  LET code  == Strip(text)
      code1 == IF code # <<>> /\ Head(code) = FenceOpen THEN Tail(code) ELSE code
      code2 == IF code1 # <<>> /\ code1[Len(code1)] = FenceClose
               THEN SubSeq(code1, 1, Len(code1) - 1) ELSE code1
  IN  code2

ErrNotConfigured == <<"<h1>Error: Gemini API not configured.</h1>">>
ErrGenerating == <<"<h1>Error generating code: e</h1>">>
ErrUpdating == <<"<h1>Error updating code: e</h1>">>

\* open(path, "w", encoding="utf-8").write(s): text mode turns every "\n"
\* into os.linesep, which is "\n" under /tmp (POSIX).
Linesep == <<"LF">>
RECURSIVE WriteText(_)
WriteText(s) ==
  IF s = <<>> THEN <<>>
  ELSE (IF Head(s) = "LF" THEN Linesep ELSE <<Head(s)>>) \o WriteText(Tail(s))

\* open(path, "r", encoding="utf-8").read(): universal newlines, "\r\n" and
\* a lone "\r" both come back as "\n".
RECURSIVE ReadText(_)
ReadText(b) ==
  IF b = <<>> THEN <<>>
  ELSE IF Head(b) = "CR"
       THEN IF Len(b) >= 2 /\ b[2] = "LF"
            THEN <<"LF">> \o ReadText(Tail(Tail(b)))
            ELSE <<"LF">> \o ReadText(Tail(b))
       ELSE <<Head(b)>> \o ReadText(Tail(b))

\* ------------------------------------------------------------------ state
VARIABLES
  run,      \* per run: position, request, response, locals, history
  disk,     \* per task: the working directory /tmp/<task>
  remote,   \* per task: the repository on the host
  commits,  \* the commits made so far; a commit's identifier is its place here
  model     \* llm_handler.model: TRUE when the provider is configured

vars == <<run, disk, remote, commits, model>>

\* No directory at /tmp/<task>.
\* index is the bytes of index.html (None: no such file), aux says LICENSE and
\* README.md are there, git and origin say the directory is a repository and has
\* its remote, head is the commit checked out (0: none), anc the commits head
\* descends from, tree and taux the index.html and the other files of head.
NoDir == [exists |-> FALSE, index |-> None, aux |-> FALSE, git |-> FALSE,
          origin |-> FALSE, head |-> 0, anc |-> {0}, tree |-> None, taux |-> FALSE]
\* A directory with nothing in it.
EmptyDir == [NoDir EXCEPT !.exists = TRUE]
\* No repository on the host.
NoRepo == [exists |-> FALSE, head |-> 0, anc |-> {0}, index |-> None,
           aux |-> FALSE, pages |-> FALSE]

NoReq == [email |-> "", secret |-> "", task |-> "", round |-> 0, nonce |-> <<>>,
          evaluation_url |-> ""]
NoRet == [repo_url |-> <<>>, commit_sha |-> 0, pages_url |-> <<>>]

\* A run before its request arrives.  A local that the flow no longer reads
\* (the generated text once it is published) goes back to None.  pc is the position in the code, bg the
\* function queued as background task, resp the status the gateway answered
\* (0: none yet), last the status of the callback attempt that ended the
\* notifier's loop (0: none did), fsha the commit that get_existing_code read,
\* llm and host the calls made to the model provider and to the repository
\* host, leftover whether the first safe_rmtree of the publisher call left the
\* directory behind, faults the failures the environment answered this run
\* with (step and reason), after the runs whose publish call had returned when this
\* run started, generr whether the generator returned an error document,
\* acked whether a callback attempt got a 2xx response, kept whether the last
\* safe_rmtree that ends a publisher call left the directory behind.
InitRun == [pc |-> "idle", req |-> NoReq, resp |-> 0, bg |-> "", code |-> None,
            existing |-> None, sha |-> 0, ret |-> NoRet, i |-> 0, delay |-> 0,
            sleeps |-> <<>>, last |-> 0, waited |-> 0, err |-> "", failed |-> "",
            fsha |-> 0, payload |-> <<>>, llm |-> 0, host |-> 0, leftover |-> FALSE,
            faults |-> {}, after |-> {}, generr |-> FALSE, acked |-> FALSE,
            kept |-> FALSE]

Init ==
  /\ run = [r \in Runs |-> InitRun]
  /\ disk = [t \in Tasks |-> NoDir]
  /\ remote = [t \in Tasks |-> NoRepo]
  /\ commits = <<>>
  /\ model \in BOOLEAN

\* ---------------------------------------------------------------- helpers
Upd(rec, new) == [k \in DOMAIN rec |-> IF k \in DOMAIN new THEN new[k] ELSE rec[k]]

\* Run r moves on with the given fields changed.
Step(r, new) == run' = [run EXCEPT ![r] = Upd(@, new)]

\* An exception leaves the flow: nothing catches it, the frames and their
\* locals are gone and the background task ends.  failed names the step.
Raise(r, step, e) ==
  Step(r, [pc |-> "aborted", failed |-> step, err |-> e, code |-> None,
           existing |-> None, sha |-> 0,
           faults |-> run[r].faults \cup {<<step, e>>}])

Task(r) == run[r].req.task

\* The identifier git gives the next commit.
nextSha == Len(commits) + 1

\* --------------------------------------- the environment: disk, git, host
\* Every call to the environment can fail for a reason of its own ("env": the
\* network, the host, the disk); why names the reason of a failure.

\* shutil.rmtree: the tree is gone, or an exception leaves it whole or emptied.
rmtree_results(d) ==
  {[raised |-> FALSE, dir |-> NoDir]} \cup {[raised |-> TRUE, dir |-> x] : x \in {d, EmptyDir}}

\* git init, git branch -M main, git add, git commit (exit status, directory).
\* A commit needs a directory and something staged that differs from head.
git_commit_results(d, sha) ==
  LET repo == IF d.git THEN d ELSE [d EXCEPT !.git = TRUE, !.head = 0, !.anc = {0}]
      clean == repo.head # 0 /\ repo.index = repo.tree /\ repo.aux = repo.taux
      empty == repo.head = 0 /\ repo.index = None /\ ~repo.aux
  IN  IF ~d.exists THEN {[rc |-> 1, why |-> "no directory", dir |-> d]}
      ELSE IF clean \/ empty THEN {[rc |-> 1, why |-> "nothing to commit", dir |-> d]}
      ELSE {[rc |-> 1, why |-> "env", dir |-> d],
            [rc |-> 0, why |-> "",
             dir |-> [repo EXCEPT !.head = sha, !.anc = @ \cup {sha},
                                  !.tree = repo.index, !.taux = repo.aux]]}

\* git remote add origin url (exit status, directory): fails when the
\* repository already has a remote of that name.
git_remote_add_results(d) ==
  IF ~d.exists \/ ~d.git THEN {[rc |-> 1, why |-> "no repository", dir |-> d]}
  ELSE IF d.origin THEN {[rc |-> 1, why |-> "remote origin already exists", dir |-> d]}
  ELSE {[rc |-> 0, why |-> "", dir |-> [d EXCEPT !.origin = TRUE]]}

\* git push origin main (exit status, repository).  The host takes the push
\* when its head is an ancestor of the pushed commit; a branch with another
\* history is rejected.
git_push_results(d, repo) ==
  IF ~d.exists \/ ~d.git \/ ~d.origin \/ d.head = 0
  THEN {[rc |-> 1, why |-> "no repository", repo |-> repo]}
  ELSE IF ~repo.exists THEN {[rc |-> 1, why |-> "repository not found", repo |-> repo]}
  ELSE IF repo.head \notin d.anc THEN {[rc |-> 1, why |-> "rejected", repo |-> repo]}
  ELSE {[rc |-> 1, why |-> "env", repo |-> repo],
        [rc |-> 0, why |-> "",
         repo |-> [repo EXCEPT !.head = d.head, !.anc = d.anc,
                               !.index = d.tree, !.aux = d.taux]]}

\* git clone url path (exit status, directory): needs the repository, and a
\* destination that does not exist or is empty.
git_clone_results(d, repo) ==
  IF d.exists /\ d # EmptyDir THEN {[rc |-> 1, why |-> "destination exists", dir |-> d]}
  ELSE IF ~repo.exists THEN {[rc |-> 1, why |-> "repository not found", dir |-> d]}
  ELSE {[rc |-> 1, why |-> "env", dir |-> d],
        [rc |-> 0, why |-> "",
         dir |-> [exists |-> TRUE, index |-> repo.index, aux |-> repo.aux,
                  git |-> TRUE, origin |-> TRUE, head |-> repo.head,
                  anc |-> repo.anc, tree |-> repo.index, taux |-> repo.aux]]}

\* git rev-parse HEAD (exit status, output)
git_rev_parse_results(d) ==
  IF d.exists /\ d.git /\ d.head # 0
  THEN {[rc |-> 1, why |-> "env", out |-> 0], [rc |-> 0, why |-> "", out |-> d.head]}
  ELSE {[rc |-> 1, why |-> "no repository", out |-> 0]}

\* gh repo create name --public (exit status, stderr, repository)
gh_repo_create_results(repo) ==
  {[rc |-> 1, stderr |-> <<"HTTP 502">>, repo |-> repo]} \cup
  (IF repo.exists
   THEN {[rc |-> 1, stderr |-> <<"GraphQL: Name ", "already exists", " on this account">>,
          repo |-> repo]}
   ELSE {[rc |-> 0, stderr |-> <<>>, repo |-> [NoRepo EXCEPT !.exists = TRUE]]})

\* POST /repos/<user>/<repo>/pages (status, repository)
pages_post_results(repo) ==
  {[status |-> 500, repo |-> repo]} \cup
  (IF ~repo.exists THEN {[status |-> 404, repo |-> repo]}
   ELSE IF repo.pages THEN {[status |-> 409, repo |-> repo]}
   ELSE {[status |-> 201, repo |-> [repo EXCEPT !.pages = TRUE]]})

\* ------------------------------------------------------ main.py: gateway
Emails == {"dev@example.com"}
\* The nonce is the caller's correlation token: each request brings its own.
NonceOf(r) == <<"nonce of", r>>
Urls == {"https://eval.example/notify"}
TaskRequest(r) == [email : Emails, secret : Secrets, task : Tasks, round : Rounds,
                   nonce : {NonceOf(r)}, evaluation_url : Urls]

\* Mutant: the secret is not compared.
handle_task_result_no_auth(req) ==
  IF req.round = 1 THEN [resp |-> 200, bg |-> "process_round_1_task"]
  ELSE IF req.round >= 2 THEN [resp |-> 200, bg |-> "process_round_2_task"]
  ELSE [resp |-> 400, bg |-> ""]

\* Mutant: every round but 1 is taken for a revision.
handle_task_result_no_round_check(req) ==
  IF req.secret # API_SECRET THEN [resp |-> 403, bg |-> ""]
  ELSE IF req.round = 1 THEN [resp |-> 200, bg |-> "process_round_1_task"]
  ELSE [resp |-> 200, bg |-> "process_round_2_task"]

\* handle_task, lines 133-146: the status answered and the function queued.
handle_task_result(req) ==
  IF req.secret # API_SECRET THEN [resp |-> 403, bg |-> ""]
  ELSE IF req.round = 1 THEN [resp |-> 200, bg |-> "process_round_1_task"]
  ELSE IF req.round >= 2 THEN [resp |-> 200, bg |-> "process_round_2_task"]
  ELSE [resp |-> 400, bg |-> ""]

handle_task(r) ==
  /\ run[r].pc = "idle"
  /\ \E req \in TaskRequest(r) :
       LET res == handle_task_result(req)
       IN  Step(r, [req |-> req, resp |-> res.resp, bg |-> res.bg,
                 pc |-> IF res.bg = "" THEN "rejected" ELSE "scheduled"])
  /\ UNCHANGED <<disk, remote, commits, model>>

\* BackgroundTasks: the queued function starts once the response is out.
\* Mutant: every run counts as returned from its publish call.
Published_everyone == Runs

\* The runs whose publish call has returned.
Published == {p \in Runs : run[p].pc \in {"r1_wait", "r2_wait", "notify", "done"}}

\* Mutant: the create flow publishes without generating.
FirstStep_no_generate(bg) == IF bg = "process_round_1_task" THEN "c_rm0" ELSE "f_rm0"

FirstStep(bg) == IF bg = "process_round_1_task" THEN "r1_generate" ELSE "f_rm0"

run_background(r) ==
  /\ run[r].pc = "scheduled"
  /\ run[r].resp # 0
  /\ Step(r, [pc |-> FirstStep(run[r].bg), after |-> Published])
  /\ UNCHANGED <<disk, remote, commits, model>>

\* ------------------------------------------- llm_handler.py: generation
\* generate_code, lines 31-75, and update_code, lines 80-116: what the call
\* can return.  Without a configured model no provider call is made.
generate_code_results ==
  IF ~model THEN {ErrNotConfigured}
  ELSE {CleanFences(t) : t \in Responses} \cup {ErrGenerating}

update_code_results ==
  IF ~model THEN {ErrNotConfigured}
  ELSE {CleanFences(t) : t \in Responses} \cup {ErrUpdating}

\* The documents returned at lines 32, 75, 81 and 116 in place of a page.
ErrorDocuments == {ErrNotConfigured, ErrGenerating, ErrUpdating}

\* model.generate_content is reached only with a configured model.
LlmCalls == IF model THEN 1 ELSE 0

\* process_round_1_task line 69
r1_generate(r) ==
  /\ run[r].pc = "r1_generate"
  /\ \E c \in generate_code_results :
       Step(r, [code |-> c, generr |-> c \in ErrorDocuments,
                llm |-> run[r].llm + LlmCalls, pc |-> "c_rm0"])
  /\ UNCHANGED <<disk, remote, commits, model>>

\* process_round_2_task lines 99-100: "not existing_code" is true of None and
\* of the empty text.
\* Mutant: the fetched text is not looked at.
Falsy_unchecked(text) == FALSE

Falsy(text) == text = None \/ text = <<>>

\* Mutant: the HTTPException of the background run becomes the answer.
r2_abort_answered ==
  [pc |-> "aborted", failed |-> "existing_code", err |-> "HTTPException(500)",
   existing |-> None, resp |-> 500]

r2_abort == [pc |-> "aborted", failed |-> "existing_code", err |-> "HTTPException(500)",
             existing |-> None]

r2_check(r) ==
  /\ run[r].pc = "r2_check"
  /\ IF Falsy(run[r].existing)
     THEN Step(r, r2_abort)
     ELSE Step(r, [pc |-> "r2_update_code"])
  /\ UNCHANGED <<disk, remote, commits, model>>

\* process_round_2_task line 103
r2_update_code(r) ==
  /\ run[r].pc = "r2_update_code"
  /\ \E c \in update_code_results :
       Step(r, [code |-> c, existing |-> None, generr |-> c \in ErrorDocuments,
                llm |-> run[r].llm + LlmCalls, pc |-> "u_rm0"])
  /\ UNCHANGED <<disk, remote, commits, model>>

\* ------------------------------------------------- main.py: the payload
\* github_handler.py lines 122-123
repo_url(task) == <<"https://github.com/", GITHUB_USER, "/", task>>
pages_url(task) == <<"https://", GITHUB_USER, ".github.io/", task, "/">>

EvaluationPayload(req, ret) ==
  [email |-> req.email, task |-> req.task, round |-> req.round, nonce |-> req.nonce,
   repo_url |-> ret.repo_url, commit_sha |-> ret.commit_sha, pages_url |-> ret.pages_url]

\* process_round_1_task lines 79-90: the deployment wait, then the payload
\* from what create_and_push_repo returned.
r1_wait(r) ==
  /\ run[r].pc = "r1_wait"
  /\ Step(r, [waited |-> DeployWait, payload |-> EvaluationPayload(run[r].req, run[r].ret),
           code |-> None, pc |-> "notify", i |-> 0, delay |-> InitialDelay])
  /\ UNCHANGED <<disk, remote, commits, model>>

\* process_round_2_task lines 108-124: the URLs are computed again from the
\* task identifier, the commit is the one update_repo returned.
\* Mutant: the pages URL is built without its closing slash.
r2_pages_url_no_slash(task) == <<"https://", getenv("GITHUB_USER"), ".github.io/", task>>

\* lines 108-109: the account is read from the environment at the call
r2_repo_url(task) == <<"https://github.com/", getenv("GITHUB_USER"), "/", task>>
r2_pages_url(task) == <<"https://", getenv("GITHUB_USER"), ".github.io/", task, "/">>

r2_wait(r) ==
  /\ run[r].pc = "r2_wait"
  /\ LET ret == [repo_url |-> r2_repo_url(Task(r)), commit_sha |-> run[r].sha,
                 pages_url |-> r2_pages_url(Task(r))]
     IN  Step(r, [waited |-> DeployWait, ret |-> ret,
               payload |-> EvaluationPayload(run[r].req, ret),
               code |-> None, pc |-> "notify", i |-> 0, delay |-> InitialDelay])
  /\ UNCHANGED <<disk, remote, commits, model>>

\* ------------------------------------------------ main.py: the notifier
\* What one requests.post can give: a status code, or -1 for a transport
\* error (ConnectionError, Timeout: a RequestException without a response).
TransportError == 0 - 1
PostOutcomes == {200, 304, 500, TransportError}

Is2xx(status) == status >= 200 /\ status < 300

\* Mutant: every response raises.
raise_for_status_always(status) == TRUE

\* Response.raise_for_status(): HTTPError for 4xx and 5xx, nothing else.
raise_for_status(status) == status >= 400 /\ status < 600

\* What one attempt, lines 53-54, raises ("": nothing).
post_raises(outcome) ==
  IF outcome = TransportError THEN "ConnectionError"
  ELSE IF raise_for_status(outcome) THEN "HTTPError" ELSE ""

\* line 58: except requests.exceptions.RequestException
RequestException == {"ConnectionError", "HTTPError", "Timeout"}

\* Mutant: after the last attempt the loop starts again.
notify_exhausted_restarts(r) ==
  /\ run[r].pc = "notify"
  /\ run[r].i >= max_retries
  /\ Step(r, [i |-> 0, delay |-> InitialDelay, sleeps |-> <<>>])
  /\ UNCHANGED <<disk, remote, commits, model>>

\* Mutant: the delay grows by one.
next_delay_linear(delay) == delay + 1

\* line 61: delay *= 2
next_delay(delay) == delay * 2

\* notify_evaluation_server lines 50-61: one turn of the loop.  A
\* RequestException sleeps for delay and doubles it; without an exception the
\* function returns.
notify_attempt(r) ==
  /\ run[r].pc = "notify"
  /\ run[r].i < max_retries
  /\ \E outcome \in PostOutcomes :
       LET exc == post_raises(outcome)
       IN  IF exc = ""
           THEN Step(r, [last |-> outcome, i |-> run[r].i + 1, pc |-> "done",
                         acked |-> Is2xx(outcome)])
           ELSE IF exc \in RequestException
           THEN Step(r, [i |-> run[r].i + 1, acked |-> run[r].acked \/ Is2xx(outcome),
                         sleeps |-> Append(run[r].sleeps, run[r].delay),
                         delay |-> next_delay(run[r].delay)])
           ELSE Raise(r, "notify", exc)
  /\ UNCHANGED <<disk, remote, commits, model>>

\* line 62: the loop is over, the function prints and returns
notify_exhausted(r) ==
  /\ run[r].pc = "notify"
  /\ run[r].i >= max_retries
  /\ Step(r, [pc |-> "done"])
  /\ UNCHANGED <<disk, remote, commits, model>>

\* ------------------------------------- github_handler.py: the publisher
\* safe_rmtree, lines 31-52: nothing to do without the directory; else one
\* rmtree and, when it raises, a second one whose exception is swallowed too.
\* The directories the call can leave behind.
safe_rmtree_results(d) ==
  IF ~d.exists THEN {d}
  ELSE UNION {IF first.raised
              THEN {second.dir : second \in rmtree_results(first.dir)}
              ELSE {first.dir} : first \in rmtree_results(d)}

\* run_command line 20, and subprocess.run(..., check=True): a non-zero exit
\* status raises.
returncode_raises(rc) == rc # 0

\* create_and_push_repo lines 105-107: the exception of gh repo create is
\* dropped when its text holds "already exists".
Contains(words, w) == \E k \in 1..Len(words) : words[k] = w
already_exists_tolerated(stderr) == Contains(stderr, "already exists")

\* Mutant: the failure is printed and the function returns.
enable_github_pages_never_raises(status) == TRUE

\* enable_github_pages lines 72-81: 201 and 409 return True, the rest raises.
enable_github_pages_ok(status) == status = 201 \/ status = 409

\* The faults of run r, with the failure o of the environment at step added
\* whether or not the code raises on it.
Faults(r, step, o) ==
  IF o.rc = 0 THEN run[r].faults ELSE run[r].faults \cup {<<step, o.why>>}

\* A safe_rmtree call of run r at position here, going on at position next;
\* first tells the clearing of a stale directory from the final removal.
rmtree_step(r, here, next, first) ==
  /\ run[r].pc = here
  /\ \E d \in safe_rmtree_results(disk[Task(r)]) :
       /\ disk' = [disk EXCEPT ![Task(r)] = d]
       /\ Step(r, [pc |-> next,
                   leftover |-> IF first THEN d.exists ELSE run[r].leftover,
                   kept |-> IF first THEN run[r].kept ELSE d.exists])
  /\ UNCHANGED <<remote, commits, model>>

\* create_and_push_repo line 89
c_rm0(r) == rmtree_step(r, "c_rm0", "c_mkdir", TRUE)

\* line 90: os.makedirs raises FileExistsError when the directory is there
c_mkdir(r) ==
  /\ run[r].pc = "c_mkdir"
  /\ IF disk[Task(r)].exists
     THEN Raise(r, "makedirs", "FileExistsError") /\ UNCHANGED disk
     ELSE /\ disk' = [disk EXCEPT ![Task(r)] = EmptyDir]
          /\ Step(r, [pc |-> "c_write"])
  /\ UNCHANGED <<remote, commits, model>>

\* lines 93-100: index.html, LICENSE and README.md are written
c_write(r) ==
  /\ run[r].pc = "c_write"
  /\ IF ~disk[Task(r)].exists
     THEN Raise(r, "write", "FileNotFoundError") /\ UNCHANGED disk
     ELSE /\ disk' = [disk EXCEPT ![Task(r)].index = WriteText(run[r].code),
                                  ![Task(r)].aux = TRUE]
          /\ Step(r, [pc |-> "c_gh"])
  /\ UNCHANGED <<remote, commits, model>>

\* The reason gh repo create gave.
GhWhy(o) == IF Contains(o.stderr, "already exists") THEN "already exists" ELSE "env"

\* lines 103-108: gh repo create
c_gh(r) ==
  /\ run[r].pc = "c_gh"
  /\ \E o \in gh_repo_create_results(remote[Task(r)]) :
       /\ remote' = [remote EXCEPT ![Task(r)] = o.repo]
       /\ IF returncode_raises(o.rc) /\ ~already_exists_tolerated(o.stderr)
          THEN Raise(r, "create", GhWhy(o))
          ELSE Step(r, [pc |-> "c_git", host |-> run[r].host + 1,
                        faults |-> IF o.rc = 0 THEN run[r].faults
                                   ELSE run[r].faults \cup {<<"create", GhWhy(o)>>}])
  /\ UNCHANGED <<disk, commits, model>>

\* A commit of run r at position here, going on at position next.
commit_step(r, here, next) ==
  /\ run[r].pc = here
  /\ \E o \in git_commit_results(disk[Task(r)], nextSha) :
       /\ disk' = [disk EXCEPT ![Task(r)] = o.dir]
       /\ IF returncode_raises(o.rc)
          THEN Raise(r, "commit", o.why) /\ UNCHANGED commits
          ELSE /\ Step(r, [pc |-> next, faults |-> Faults(r, "commit", o)])
               /\ commits' = Append(commits, [by |-> r, fn |-> run[r].bg,
                                               src |-> run[r].code])
  /\ UNCHANGED <<remote, model>>

\* lines 111-114: git init, branch, add, commit
c_git(r) == commit_step(r, "c_git", "c_push")

\* A push of run r from directory d at position here, going on at next.
push_from(r, d, next) ==
  \E o \in git_push_results(d, remote[Task(r)]) :
    /\ remote' = [remote EXCEPT ![Task(r)] = o.repo]
    /\ IF returncode_raises(o.rc)
       THEN Raise(r, "push", o.why)
       ELSE Step(r, [pc |-> next, host |-> run[r].host + 1,
                     faults |-> Faults(r, "push", o)])

\* lines 116-118: git remote add origin, git push -u origin main
c_push(r) ==
  /\ run[r].pc = "c_push"
  /\ \E a \in git_remote_add_results(disk[Task(r)]) :
       /\ disk' = [disk EXCEPT ![Task(r)] = a.dir]
       /\ IF returncode_raises(a.rc)
          THEN Raise(r, "remote add", a.why) /\ UNCHANGED remote
          ELSE push_from(r, a.dir, "c_sha")
  /\ UNCHANGED <<commits, model>>

\* A git rev-parse HEAD of run r at position here, going on at position next.
rev_parse_step(r, here, next) ==
  /\ run[r].pc = here
  /\ \E o \in git_rev_parse_results(disk[Task(r)]) :
       IF returncode_raises(o.rc)
       THEN Raise(r, "rev-parse", o.why)
       ELSE Step(r, [sha |-> o.out, pc |-> next, faults |-> Faults(r, "rev-parse", o)])
  /\ UNCHANGED <<disk, remote, commits, model>>

\* line 121
c_sha(r) == rev_parse_step(r, "c_sha", "c_rm1")

\* Mutant: the directory is not removed before the pages call.
c_rm1_skipped(r) ==
  /\ run[r].pc = "c_rm1"
  /\ Step(r, [pc |-> "c_pages"])
  /\ UNCHANGED <<disk, remote, commits, model>>

\* line 126
c_rm1(r) == rmtree_step(r, "c_rm1", "c_pages", FALSE)

\* The reason the host gave for not creating the pages site.
PagesWhy(o) == IF o.status = 409 THEN "already enabled" ELSE "env"

\* lines 129-131: enable_github_pages, then the return value
c_pages(r) ==
  /\ run[r].pc = "c_pages"
  /\ \E o \in pages_post_results(remote[Task(r)]) :
       /\ remote' = [remote EXCEPT ![Task(r)] = o.repo]
       /\ IF enable_github_pages_ok(o.status)
          THEN Step(r, [ret |-> [repo_url |-> repo_url(Task(r)),
                                 commit_sha |-> run[r].sha,
                                 pages_url |-> pages_url(Task(r))],
                        host |-> run[r].host + 1,
                        faults |-> IF o.status = 201 THEN run[r].faults
                                   ELSE run[r].faults \cup {<<"pages", PagesWhy(o)>>},
                        pc |-> "r1_wait"])
          ELSE Raise(r, "pages", PagesWhy(o))
  /\ UNCHANGED <<disk, commits, model>>

\* update_repo line 139
u_rm0(r) == rmtree_step(r, "u_rm0", "u_clone", TRUE)

\* A git clone of run r at position here, going on at position next.
clone_step(r, here, next) ==
  /\ run[r].pc = here
  /\ \E o \in git_clone_results(disk[Task(r)], remote[Task(r)]) :
       /\ disk' = [disk EXCEPT ![Task(r)] = o.dir]
       /\ IF returncode_raises(o.rc)
          THEN Raise(r, "clone", o.why)
          ELSE Step(r, [pc |-> next, host |-> run[r].host + 1,
                        faults |-> Faults(r, "clone", o)])
  /\ UNCHANGED <<remote, commits, model>>

\* line 140
u_clone(r) == clone_step(r, "u_clone", "u_write")

\* lines 142-143: index.html is overwritten
u_write(r) ==
  /\ run[r].pc = "u_write"
  /\ IF ~disk[Task(r)].exists
     THEN Raise(r, "write", "FileNotFoundError") /\ UNCHANGED disk
     ELSE /\ disk' = [disk EXCEPT ![Task(r)].index = WriteText(run[r].code)]
          /\ Step(r, [pc |-> "u_commit"])
  /\ UNCHANGED <<remote, commits, model>>

\* lines 145-146: git add index.html, git commit
u_commit(r) == commit_step(r, "u_commit", "u_push")

\* line 147: git push origin main
u_push(r) ==
  /\ run[r].pc = "u_push"
  /\ push_from(r, disk[Task(r)], "u_sha")
  /\ UNCHANGED <<disk, commits, model>>

\* line 149
u_sha(r) == rev_parse_step(r, "u_sha", "u_rm1")

\* lines 151-153
u_rm1(r) == rmtree_step(r, "u_rm1", "r2_wait", FALSE)

\* get_existing_code line 161
f_rm0(r) == rmtree_step(r, "f_rm0", "f_clone", TRUE)

\* line 162
f_clone(r) == clone_step(r, "f_clone", "f_read")

\* lines 164-170: the text of index.html, or None on FileNotFoundError
read_index(d) == IF d.exists /\ d.index # None THEN ReadText(d.index) ELSE None

f_read(r) ==
  /\ run[r].pc = "f_read"
  /\ LET d == disk[Task(r)]
     IN  Step(r, [existing |-> read_index(d), fsha |-> IF d.exists THEN d.head ELSE 0,
                  pc |-> "f_rm1"])
  /\ UNCHANGED <<disk, remote, commits, model>>

\* lines 171-172: finally, safe_rmtree
f_rm1(r) == rmtree_step(r, "f_rm1", "r2_check", FALSE)

\* ------------------------------------------------------- specification
\* One step of the background task of run r.
background_step(r) ==
    \/ run_background(r)
    \/ r1_generate(r)
    \/ c_rm0(r) \/ c_mkdir(r) \/ c_write(r) \/ c_gh(r) \/ c_git(r) \/ c_push(r)
    \/ c_sha(r) \/ c_rm1(r) \/ c_pages(r)
    \/ r1_wait(r)
    \/ f_rm0(r) \/ f_clone(r) \/ f_read(r) \/ f_rm1(r)
    \/ r2_check(r)
    \/ r2_update_code(r)
    \/ u_rm0(r) \/ u_clone(r) \/ u_write(r) \/ u_commit(r) \/ u_push(r)
    \/ u_sha(r) \/ u_rm1(r)
    \/ r2_wait(r)
    \/ notify_attempt(r)
    \/ notify_exhausted(r)

Next == \E r \in Runs : handle_task(r) \/ background_step(r)

Spec == Init /\ [][Next]_vars

\* The service with a caller that sends its next request once the run of the
\* one before has ended.  Every call of a background task returns or raises:
\* the worker thread that runs it is not starved, and time.sleep ends.
\* Requests need not come.
InTurn(r) ==
  \A p \in Runs \ {r} : run[p].pc \in {"idle", "rejected", "done", "aborted"}
handle_task_in_turn(r) == InTurn(r) /\ handle_task(r)
NextInTurn == \E r \in Runs : handle_task_in_turn(r) \/ background_step(r)
FairSpec == Init /\ [][NextInTurn]_vars /\ \A r \in Runs : WF_vars(background_step(r))

\* ---------------------------------------------------------------- claims
CreateFlow == "process_round_1_task"
UpdateFlow == "process_round_2_task"
PublisherSteps ==
  {"c_rm0", "c_mkdir", "c_write", "c_gh", "c_git", "c_push", "c_sha", "c_rm1", "c_pages",
   "u_rm0", "u_clone", "u_write", "u_commit", "u_push", "u_sha", "u_rm1",
   "f_rm0", "f_clone", "f_read", "f_rm1"}
Backoff == <<1, 2, 4, 8, 16>>

\* C1: whenever a call of create_and_push_repo, update_repo or
\* get_existing_code returns or raises, the working directory /tmp/<task> of
\* its task does not exist.
C1_WorkdirGoneOnExit ==
  [][\A r \in Runs :
       (run[r].pc \in PublisherSteps /\ run'[r].pc \notin PublisherSteps)
         => ~disk'[Task(r)].exists]_vars

\* C2: a create_and_push_repo call that starts after another one has
\* returned for the same task, clears its working directory and meets no
\* failure of the environment other than the two answers it tolerates, does
\* not raise.
SecondCreate(q) ==
  /\ run[q].bg = CreateFlow
  /\ \E p \in run[q].after : run[p].bg = CreateFlow /\ Task(p) = Task(q)
  /\ ~run[q].leftover
C2_SecondCreateDoesNotRaise ==
  \A q \in Runs : (SecondCreate(q) /\ run[q].pc = "aborted") => run[q].err = "env"

\* C3 as stated: when no attempt of notify_evaluation_server got a 2xx
\* response, the call made exactly 5 attempts, slept 1, 2, 4, 8, 16 and
\* returned without raising.
FiveAttemptsThenReturn(r) ==
  /\ run[r].i = 5
  /\ run[r].sleeps = Backoff
  /\ run[r].failed = ""
Tolerated == {<<"create", "already exists">>, <<"pages", "already enabled">>}
C4_PublishFailureAborts ==
  \A r \in Runs :
    (run[r].faults \ Tolerated # {}) =>
      /\ run[r].pc = "aborted"
      /\ <<run[r].failed, run[r].err>> \in run[r].faults \ Tolerated
      /\ run[r].i = 0
      /\ run[r].payload = <<>>
C4_Witness ==
  \E r \in Runs : run[r].pc = "aborted" /\ run[r].faults = {<<"pages", "env">>}

\* C5: a publish or fetch call whose first safe_rmtree left the directory
\* behind does not fail because the directory exists (with no other run at
\* work on the directory: each has returned from its publish call, has
\* aborted or has not started).
Alone(r) ==
  \A p \in Runs \ {r} :
    p \in run[r].after \/ run[p].pc \in {"idle", "rejected", "scheduled", "aborted"}
C5_LeftoverNeverAborts ==
  \A r \in Runs :
    (run[r].leftover /\ Alone(r)) =>
      <<run[r].failed, run[r].err>> \notin
        {<<"makedirs", "FileExistsError">>, <<"clone", "destination exists">>}

\* C6: a request with a wrong secret, whatever its round, is answered 403,
\* nothing is queued for it, and no call to the model provider, the
\* repository host or the callback is made for it.
C6_WrongSecretRejected ==
  \A r \in Runs :
    (run[r].pc # "idle" /\ run[r].req.secret # API_SECRET) =>
      /\ run[r].resp = 403
      /\ run[r].pc = "rejected"
      /\ run[r].bg = ""
      /\ run[r].llm = 0 /\ run[r].host = 0 /\ run[r].i = 0
C6_Witness ==
  \E r \in Runs :
    run[r].pc = "rejected" /\ run[r].req.secret # API_SECRET /\ run[r].req.round >= 1

\* C7: a request with round < 1 is rejected and no flow is queued or started
\* for it.
C7_LowRoundRejected ==
  \A r \in Runs :
    (run[r].pc # "idle" /\ run[r].req.round < 1) =>
      /\ run[r].resp \in {400, 403}
      /\ run[r].pc = "rejected"
      /\ run[r].bg = ""
C7_Witness ==
  \E r \in Runs :
    run[r].pc = "rejected" /\ run[r].req.secret = API_SECRET /\ run[r].req.round < 1
      /\ run[r].resp = 400

\* C8: a request with the right secret and round >= 1 has its 200 answer
\* from the moment its flow is queued: before the flow starts, while it runs,
\* and unchanged after it has finished or aborted.
C8_AckBeforeRun ==
  \A r \in Runs :
    (run[r].pc # "idle" /\ run[r].req.secret = API_SECRET /\ run[r].req.round >= 1) =>
      /\ run[r].resp = 200
      /\ run[r].pc # "rejected"
C8_Witness ==
  \E r, q \in Runs :
    /\ run[r].pc = "aborted" /\ run[r].failed = "existing_code" /\ run[r].resp = 200
    /\ run[q].pc = "done" /\ run[q].resp = 200

\* C9: an update-flow run whose fetch found nothing published (the clone
\* failed, or held no commit) makes no model-provider call, never enters
\* update_repo and makes no notification attempt: it ends aborted.
C9_NothingPublishedAborts ==
  \A r \in Runs :
    (run[r].bg = UpdateFlow /\ run[r].fsha = 0
       /\ run[r].pc \notin {"scheduled", "f_rm0", "f_clone", "f_read"}) =>
      /\ run[r].pc \in {"f_rm1", "r2_check", "aborted"}
      /\ run[r].llm = 0
      /\ run[r].i = 0
C9_Witness ==
  \E r \in Runs :
    /\ run[r].bg = UpdateFlow /\ run[r].pc = "aborted"
    /\ run[r].failed = "existing_code" /\ run[r].fsha = 0

\* C10: get_existing_code, called after a create_and_push_repo call returned
\* and reading the commit that call made, returns exactly the text that call
\* was given.
C10_RoundTrip ==
  \A q \in Runs :
    (run[q].pc = "r2_check" /\ run[q].fsha # 0
       /\ commits[run[q].fsha].fn = CreateFlow
       /\ commits[run[q].fsha].by \in run[q].after) =>
      run[q].existing = commits[run[q].fsha].src

\* C11: a run whose generator returned an error document does not abort for
\* it: with no other run at work beside it, its stale directory cleared and
\* its repository not created before by another create, it aborts only on a
\* failure of the environment.
Sequential(r) ==
  \A p \in Runs \ {r} :
    p \in run[r].after \/ run[p].pc \in {"idle", "rejected", "scheduled"}
C11_GenerationFailureNeverAborts ==
  \A r \in Runs :
    (run[r].generr /\ Sequential(r) /\ ~run[r].leftover /\ ~SecondCreate(r)
       /\ run[r].pc = "aborted") => run[r].err = "env"


\* C12: notify_evaluation_server is called at most once in a run, with the
\* payload of that run, and makes no attempt after one that got a 2xx response.
C12_DeliveredAtMostOnce ==
  [][\A r \in Runs :
       /\ (run'[r].pc = "notify" /\ run[r].pc # "notify") =>
            (run[r].payload = <<>> /\ run[r].i = 0 /\ run'[r].payload # <<>>)
       /\ run'[r].i # run[r].i =>
            /\ run[r].pc = "notify" /\ run'[r].i = run[r].i + 1
            /\ run[r].payload # <<>> /\ run'[r].payload = run[r].payload
            /\ ~run[r].acked
       /\ run'[r].acked => run'[r].pc = "done"]_vars
C12_Witness ==
  \E r \in Runs : run[r].pc = "done" /\ run[r].acked /\ run[r].i = 3

\* C13: the steps of a run come in the order of its flow, each once: a
\* step is followed by the next one of the flow or by the abort of the run,
\* nothing follows an abort or the return of notify, and a notification
\* attempt is made only after the publish step has returned and the
\* deployment wait is over.
CreateOrder ==
  <<"scheduled", "r1_generate", "c_rm0", "c_mkdir", "c_write", "c_gh", "c_git",
    "c_push", "c_sha", "c_rm1", "c_pages", "r1_wait", "notify", "done">>
UpdateOrder ==
  <<"scheduled", "f_rm0", "f_clone", "f_read", "f_rm1", "r2_check", "r2_update_code",
    "u_rm0", "u_clone", "u_write", "u_commit", "u_push", "u_sha", "u_rm1", "r2_wait",
    "notify", "done">>
Order(bg) == IF bg = CreateFlow THEN CreateOrder ELSE UpdateOrder
Follows(order, a, b) == \E k \in 1..(Len(order) - 1) : order[k] = a /\ order[k + 1] = b
C13_StepsInFlowOrder ==
  [][\A r \in Runs :
       /\ run'[r].pc # run[r].pc =>
            \/ run[r].pc = "idle" /\ run'[r].pc \in {"rejected", "scheduled"}
            \/ /\ run[r].pc \notin {"idle", "rejected", "aborted", "done"}
               /\ \/ run'[r].pc = "aborted"
                  \/ Follows(Order(run[r].bg), run[r].pc, run'[r].pc)
       /\ run'[r].i # run[r].i =>
            /\ run[r].pc = "notify"
            /\ run[r].waited = DeployWait
            /\ run[r].ret.commit_sha # 0
            /\ run[r].faults \ Tolerated = {}]_vars
C13_Witness ==
  \E r, q \in Runs :
    /\ run[r].bg = CreateFlow /\ run[r].pc = "done" /\ run[r].i = 1
    /\ run[q].bg = UpdateFlow /\ run[q].pc = "done" /\ run[q].i = 1

\* C14: all runs of a task work in the one directory /tmp/<task>, and
\* only another run at work at the same time takes the directory away from
\* a run that has staged its files and has not finished its push or read.
InFlight == {"c_gh", "c_git", "c_push", "u_commit", "u_push", "f_read"}
AfterCleanup == {"c_mkdir", "u_clone", "f_clone", "c_pages", "r2_wait", "r2_check"}
C14_OnlyAnotherRunRemoves ==
  \A q \in Runs :
    (run[q].pc \in InFlight /\ ~disk[Task(q)].exists) => ~Sequential(q)
C14_Witness ==
  \E p, q \in Runs :
    /\ p # q /\ Task(p) = Task(q)
    /\ run[q].pc \in InFlight /\ run[q].faults = {}
    /\ run[p].pc \in AfterCleanup /\ run[p].faults = {}
    /\ ~disk[Task(q)].exists

\* C15: an update-flow run aborts at the check of the fetched text only
\* when the fetch found no content file, that is cloned no commit (with no
\* other run at work beside it).
C15_AbortOnlyWhenAbsent ==
  \A r \in Runs :
    (run[r].pc = "aborted" /\ run[r].failed = "existing_code" /\ Sequential(r)) =>
      run[r].fsha = 0

\* C16: in create_and_push_repo the steps gh repo create, commit, push,
\* rev-parse, safe_rmtree and enable_github_pages follow each other in this
\* order; the commit returned is the one rev-parse read; and at the call of
\* enable_github_pages the directory is gone when the removal did not fail
\* (with no other run at work beside this one).
DirGoneAtPages(r) ==
  (run[r].pc = "c_pages" /\ ~run[r].kept /\ Sequential(r)) => ~disk[Task(r)].exists
CreateSteps == <<"c_gh", "c_git", "c_push", "c_sha", "c_rm1", "c_pages", "r1_wait">>
UrlsOf(account, task) ==
  [repo_url |-> <<"https://github.com/", account, "/", task>>,
   pages_url |-> <<"https://", account, ".github.io/", task, "/">>]
C17_PayloadEchoesRequest ==
  \A r \in Runs :
    run[r].payload # <<>> =>
      LET p == run[r].payload
      IN  /\ p.email = run[r].req.email /\ p.task = run[r].req.task
          /\ p.round = run[r].req.round /\ p.nonce = NonceOf(r)
          /\ p.commit_sha = run[r].sha /\ p.commit_sha # 0
          /\ p.repo_url = UrlsOf("acct", p.task).repo_url
          /\ p.pages_url = UrlsOf("acct", p.task).pages_url
          /\ \A q \in Runs :
               (run[q].payload # <<>> /\ run[q].payload.task = p.task) =>
                 /\ run[q].payload.repo_url = p.repo_url
                 /\ run[q].payload.pages_url = p.pages_url
C17_Witness ==
  \E r, q \in Runs :
    /\ run[r].bg = CreateFlow /\ run[q].bg = UpdateFlow
    /\ run[r].payload # <<>> /\ run[q].payload # <<>>
    /\ run[q].payload.round = 2

\* C18: every accepted run ends: it does not stay for ever between the
\* queueing of its flow and the return of notify_evaluation_server, after at
\* most 5 attempts, or an abort (again and again the run is not yet accepted
\* or has ended, and a run that has ended stays so), and its place in the
\* flow never goes back.
Ended(r) == run[r].pc \in {"done", "aborted"} /\ run[r].i <= max_retries
Place(r) ==
  IF run[r].pc \in {"idle", "rejected"} THEN 0
  ELSE IF run[r].pc = "aborted" THEN Len(UpdateOrder) + 1
  ELSE CHOOSE k \in 1..Len(Order(run[r].bg)) : Order(run[r].bg)[k] = run[r].pc
C18_AcceptedRunEnds ==
  /\ \A r \in Runs : []<>(run[r].pc \in {"idle", "rejected"} \/ Ended(r))
  /\ [][\A r \in Runs : Place(r)' >= Place(r)]_vars
C18_Witness ==
  \E r, q \in Runs :
    /\ run[r].pc = "done" /\ run[r].i = max_retries /\ run[r].last = 0
    /\ run[q].pc = "aborted" /\ run[q].failed = "push"
====
